---- MODULE Spec2Model ----
(***************************************************************************)
(* Chainflow roguelike: the dungeon generator, the entities (Player,       *)
(* Enemy, Item) and the floor / run controller (GameScene with the React   *)
(* shell that drives proceed-to-next-floor and restart-game).              *)
(*                                                                         *)
(* Randomness (Math.random, Phaser.Math.Between) and geometry (which       *)
(* sprites overlap, which enemies are inside the attack arc) are inputs    *)
(* of the actions, drawn with \E.                                          *)
(***************************************************************************)
EXTENDS Integers, Sequences, FiniteSets, TLC

VARIABLES
    \* DungeonGenerator
    width, height, floor, rooms, tiles, genPc, genI, roomCount,
    \* GameScene
    currentFloor, dropsThisFloor, pendingItems, gate, gateSpawned,
    attackCooldown, player, enemies, items, sceneStatus,
    \* GameState (EventBus.ts)
    initialEquipmentBonus,
    \* GameApp (React state) and GameContext.gameStarted
    showFloorTransition, showDeathModal, mintingStatus, appCurrentFloor,
    appPendingItems, gameStarted,
    \* the argument of the latest handleConfirmMint, as indices into appPendingItems
    selectedItems,
    \* Date.now()
    now,
    \* history of the EventBus since the scene started
    diedCount, signalAfterDeath, transitionCount, transitionFloor,
    \* the last handler that ran, with what the properties need of its arguments
    lastCall

genVars   == <<width, height, floor, rooms, tiles, genPc, genI, roomCount>>
sceneVars == <<currentFloor, dropsThisFloor, pendingItems, gate, gateSpawned,
               attackCooldown, player, enemies, items, sceneStatus>>
appVars   == <<showFloorTransition, showDeathModal, mintingStatus, appCurrentFloor,
               appPendingItems, gameStarted, selectedItems>>
busVars   == <<diedCount, signalAfterDeath, transitionCount, transitionFloor>>
vars      == <<genVars, sceneVars, initialEquipmentBonus, appVars, now, busVars, lastCall>>

Min(a, b) == IF a < b THEN a ELSE b
Max(a, b) == IF a > b THEN a ELSE b

RECURSIVE Pow(_, _)
Pow(b, e) == IF e = 0 THEN 1 ELSE b * Pow(b, e - 1)

\* Phaser.Math.Between(min, max) = floor(random * (max - min + 1) + min), random in [0, 1):
\* min..max when max >= min; with max < min the factor is <= 0 and the result
\* lies in (max + 1)..min.
Between(lo, hi) == IF hi >= lo THEN lo .. hi ELSE (hi + 1) .. lo

(***************************************************************************)
(* DungeonGenerator                                                        *)
(***************************************************************************)

\* bounds of the generation runs that are explored exhaustively
GenBaseWidth  == 12
GenBaseHeight == 9
\* a grid only as high as the tallest room (6 + floor / 3): the relation the
\* capped 35-row grid has to roomHeight from floor 87 on
GenLowHeight  == 6
MaxGenFloor   == 1
\* bound of the floors for which the constructor alone is explored
MaxDimFloor   == 51

MaxWidth  == 45
MaxHeight == 35
RoomMargin == 2

ConstructorWidthNoCap(baseWidth, f) == baseWidth + (f - 1) * 2
ConstructorWidth(baseWidth, f) == Min(MaxWidth, baseWidth + (f - 1) * 2)
ConstructorHeight(baseHeight, f) == Min(MaxHeight, baseHeight + (f - 1) * 2)

\* getDimensions()
getDimensions == [width |-> width, height |-> height,
                  pixelWidth |-> width * 32, pixelHeight |-> height * 32]

\* this.tiles: rows 0..height-1 of columns 0..width-1, each 1 (Wall) or 0 (Floor).
\* The variable tiles holds the cells <<x, y>> whose value is 0; every other
\* cell of the array is 1.
Cells == (0 .. (width - 1)) \X (0 .. (height - 1))
AllWalls == {}
TileAt(t, c) == IF c \in t THEN 0 ELSE 1

\* new DungeonGenerator(scene, baseWidth, baseHeight, floor)
Construct(baseWidth, baseHeight, f) ==
    /\ genPc \in {"none", "constructed", "done"}
    /\ width' = ConstructorWidth(baseWidth, f)
    /\ height' = ConstructorHeight(baseHeight, f)
    /\ floor' = f
    /\ rooms' = << >>
    /\ tiles' = {}
    /\ genI' = 0
    /\ roomCount' = 0
    /\ genPc' = "constructed"

MinRooms(f) == Min(5 + (f \div 2), 8)
MaxRooms(f) == Min(8 + (f \div 2), 12)

\* generate(), up to the choice of roomCount in generateRooms
GenerateBegin ==
    /\ genPc = "constructed"
    /\ tiles' = AllWalls
    /\ \E n \in Between(MinRooms(floor), MaxRooms(floor)) : roomCount' = n
    /\ genI' = 0
    /\ genPc' = "rooms"
    /\ UNCHANGED <<width, height, floor, rooms>>

Room(x, y, w, h) ==
    [x |-> x, y |-> y, width |-> w, height |-> h,
     centerX |-> x + (w \div 2), centerY |-> y + (h \div 2)]

\* roomWidth and roomHeight of one attempt on floor f
roomWidths(f) == Between(4, 8 + (f \div 3))
roomHeights(f) == Between(4, 6 + (f \div 3))

\* the rooms one attempt of generateRooms may draw
Candidates ==
    UNION { UNION { { Room(x, y, w, h) :
                        x \in Between(1, width - w - 1),
                        y \in Between(1, height - h - 1) } :
                    h \in roomHeights(floor) } :
            w \in roomWidths(floor) }

roomsOverlapNoMargin(a, b) ==
    /\ a.x < b.x + b.width
    /\ a.x + a.width > b.x
    /\ a.y < b.y + b.height
    /\ a.y + a.height > b.y

roomsOverlap(a, b) ==
    /\ a.x < b.x + b.width + RoomMargin
    /\ a.x + a.width + RoomMargin > b.x
    /\ a.y < b.y + b.height + RoomMargin
    /\ a.y + a.height + RoomMargin > b.y

Overlaps(newRoom) == \E k \in 1 .. Len(rooms) : roomsOverlap(newRoom, rooms[k])

\* carveRoom: rows outside the array make the assignment throw
InRows(room) == room.y >= 0 /\ room.y + room.height <= height

\* columns outside a row do not reach the tilemap, which reads 0..width-1
carveRoomSkipped(t, room) == t
carveRoom(t, room) ==
    t \cup { c \in (room.x .. (room.x + room.width - 1)) \X
                    (room.y .. (room.y + room.height - 1)) : c \in Cells }

\* One iteration of the for loop of generateRooms: up to maxAttempts draws, each
\* independent of the others. The loop pushes and carves the first draw that
\* overlaps no placed room; it gives up when all maxAttempts draws overlapped,
\* which can happen exactly when some candidate overlaps.
maxAttempts == 100

RoomIteration ==
    /\ genPc = "rooms"
    /\ genI < roomCount
    /\ maxAttempts >= 1
    /\ LET free == { c \in Candidates : ~Overlaps(c) }
       IN \/ \E r \in free :
                IF InRows(r)
                THEN /\ rooms' = Append(rooms, r)
                     /\ tiles' = carveRoom(tiles, r)
                     /\ genI' = genI + 1
                     /\ genPc' = "rooms"
                ELSE /\ rooms' = Append(rooms, r)
                     /\ genPc' = "threw"
                     /\ UNCHANGED <<tiles, genI>>
          \/ /\ free # Candidates
             /\ genI' = genI + 1
             /\ UNCHANGED <<rooms, tiles, genPc>>
    /\ UNCHANGED <<width, height, floor, roomCount>>

\* end of generateRooms, start of connectRooms (i = 1)
RoomsDone ==
    /\ genPc = "rooms"
    /\ genI = roomCount
    /\ genPc' = "connect"
    /\ genI' = 1
    /\ UNCHANGED <<width, height, floor, rooms, tiles, roomCount>>

carveHorizontalCorridorAlone(t, x1, x2, y) ==
    { c \in (Min(x1, x2) .. Max(x1, x2)) \X {y} :
         c[2] >= 0 /\ c[2] < height /\ c[1] >= 0 /\ c[1] < width }
carveHorizontalCorridor(t, x1, x2, y) ==
    t \cup { c \in (Min(x1, x2) .. Max(x1, x2)) \X {y} :
                c[2] >= 0 /\ c[2] < height /\ c[1] >= 0 /\ c[1] < width }

carveVerticalCorridor(t, y1, y2, x) ==
    t \cup { c \in {x} \X (Min(y1, y2) .. Max(y1, y2)) :
                c[2] >= 0 /\ c[2] < height /\ c[1] >= 0 /\ c[1] < width }

HorizontalFirstWrongCorner(t, roomA, roomB) ==
    carveVerticalCorridor(
        carveHorizontalCorridor(t, roomA.centerX, roomB.centerX, roomA.centerY),
        roomA.centerY, roomB.centerY, roomA.centerX)

\* the two branches of connectRooms
HorizontalFirst(t, roomA, roomB) ==
    carveVerticalCorridor(
        carveHorizontalCorridor(t, roomA.centerX, roomB.centerX, roomA.centerY),
        roomA.centerY, roomB.centerY, roomB.centerX)

VerticalFirst(t, roomA, roomB) ==
    carveHorizontalCorridor(
        carveVerticalCorridor(t, roomA.centerY, roomB.centerY, roomA.centerX),
        roomA.centerX, roomB.centerX, roomB.centerY)

\* one iteration of the loop of connectRooms
ConnectIteration ==
    /\ genPc = "connect"
    /\ genI < Len(rooms)
    /\ \E horizontalFirst \in BOOLEAN :
          tiles' = IF horizontalFirst
                   THEN HorizontalFirst(tiles, rooms[genI], rooms[genI + 1])
                   ELSE VerticalFirst(tiles, rooms[genI], rooms[genI + 1])
    /\ genI' = genI + 1
    /\ UNCHANGED <<width, height, floor, rooms, genPc, roomCount>>

\* end of connectRooms; createTilemap copies this.tiles into the layers
GenerateEnd ==
    /\ genPc = "connect"
    /\ genI >= Len(rooms)
    /\ genPc' = "done"
    /\ UNCHANGED <<width, height, floor, rooms, tiles, genI, roomCount>>

getSpawnPoint == [x |-> rooms[1].centerX, y |-> rooms[1].centerY]
getLastRoomCenter == [x |-> rooms[Len(rooms)].centerX, y |-> rooms[Len(rooms)].centerY]

(***************************************************************************)
(* Entities: Enemy.ts, Item.ts, Player.ts                                  *)
(***************************************************************************)

EnemyRarity == {"normal", "uncommon", "rare", "epic", "legendary"}

\* hp and attack in tenths, dropChance in percent
RARITY_MULTIPLIERS ==
    [r \in EnemyRarity |->
        CASE r = "normal"    -> [hp |-> 10, attack |-> 10, dropChance |-> 20]
          [] r = "uncommon"  -> [hp |-> 13, attack |-> 12, dropChance |-> 35]
          [] r = "rare"      -> [hp |-> 16, attack |-> 14, dropChance |-> 50]
          [] r = "epic"      -> [hp |-> 20, attack |-> 17, dropChance |-> 70]
          [] r = "legendary" -> [hp |-> 30, attack |-> 20, dropChance |-> 95]]

\* Math.floor(50 * 1.5^(floor-1) * hp) and Math.floor(10 * 1.3^(floor-1) * attack)
EnemyMaxHealth(f, r) ==
    (50 * Pow(3, f - 1) * RARITY_MULTIPLIERS[r].hp) \div (Pow(2, f - 1) * 10)
\* (the factor 10 of the attack is cancelled against the tenths of the multiplier)
EnemyAttackShrinking(f, r) ==
    (Pow(10, f - 1) * RARITY_MULTIPLIERS[r].attack) \div Pow(13, f - 1)
EnemyAttack(f, r) ==
    (Pow(13, f - 1) * RARITY_MULTIPLIERS[r].attack) \div Pow(10, f - 1)

\* new Enemy(scene, x, y, floor, rarity)
NewEnemy(f, r) ==
    [rarity |-> r,
     health |-> EnemyMaxHealth(f, r),
     maxHealth |-> EnemyMaxHealth(f, r),
     attack |-> EnemyAttack(f, r),
     dropChance |-> RARITY_MULTIPLIERS[r].dropChance,
     active |-> TRUE]

\* Enemy.rollRarity: the weights are subtracted in turn until roll <= 0; roll is
\* Math.random() * 100 rounded up (0 .. 100), which decides roll <= 0 as the roll
\* itself does
RARITY_SPAWN_WEIGHTS ==
    << [rarity |-> "normal", weight |-> 50], [rarity |-> "uncommon", weight |-> 25],
       [rarity |-> "rare", weight |-> 15], [rarity |-> "epic", weight |-> 8],
       [rarity |-> "legendary", weight |-> 2] >>

RECURSIVE rollRarityFrom(_, _)
rollRarityFrom(roll, k) ==
    IF k > Len(RARITY_SPAWN_WEIGHTS) THEN "normal"
    ELSE IF roll - RARITY_SPAWN_WEIGHTS[k].weight <= 0
         THEN RARITY_SPAWN_WEIGHTS[k].rarity
         ELSE rollRarityFrom(roll - RARITY_SPAWN_WEIGHTS[k].weight, k + 1)

rollRarity(roll) == rollRarityFrom(roll, 1)

getMinDropRarityInverted(e) ==
    CASE e.rarity = "normal"    -> "epic"
      [] e.rarity = "uncommon"  -> "rare"
      [] e.rarity = "rare"      -> "uncommon"
      [] e.rarity = "epic"      -> "common"
      [] e.rarity = "legendary" -> "common"

getMinDropRarity(e) ==
    CASE e.rarity = "normal"    -> "common"
      [] e.rarity = "uncommon"  -> "common"
      [] e.rarity = "rare"      -> "uncommon"
      [] e.rarity = "epic"      -> "rare"
      [] e.rarity = "legendary" -> "epic"

Enemy_takeDamageNoFloor(e, amount) == [e EXCEPT !.health = e.health - amount]
Enemy_takeDamage(e, amount) == [e EXCEPT !.health = Max(0, e.health - amount)]

RARITY_ORDER == << "common", "uncommon", "rare", "epic", "legendary" >>
indexOf(rarity) == CHOOSE k \in 1 .. Len(RARITY_ORDER) : RARITY_ORDER[k] = rarity

RARITY_WEIGHTS ==
    << [rarity |-> "common", weight |-> 50], [rarity |-> "uncommon", weight |-> 30],
       [rarity |-> "rare", weight |-> 15], [rarity |-> "epic", weight |-> 4],
       [rarity |-> "legendary", weight |-> 1] >>

\* the loop of generateItemData over RARITY_WEIGHTS; roll is Math.random() * 100
\* rounded down, which decides roll < cumulative as the roll itself does
RECURSIVE rolledRarityFrom(_, _, _)
rolledRarityFrom(roll, cumulative, k) ==
    IF k > Len(RARITY_WEIGHTS) THEN "common"
    ELSE IF roll < cumulative + RARITY_WEIGHTS[k].weight
         THEN RARITY_WEIGHTS[k].rarity
         ELSE rolledRarityFrom(roll, cumulative + RARITY_WEIGHTS[k].weight, k + 1)

rolledRarity(roll) == rolledRarityFrom(roll, 0, 1)

EnsureMinimumSkipped(rarity, minRarity) == rarity
EnsureMinimum(rarity, minRarity) ==
    IF indexOf(rarity) < indexOf(minRarity) THEN minRarity ELSE rarity

\* twice the multiplier of each rarity: 1, 1.5, 2, 3, 5
rarityMultiplier ==
    [r \in {"common", "uncommon", "rare", "epic", "legendary"} |->
        CASE r = "common" -> 2 [] r = "uncommon" -> 3 [] r = "rare" -> 4
          [] r = "epic" -> 6 [] r = "legendary" -> 10]

\* generateItemData(minRarity) on floor f with the random draws as arguments:
\* roll in 0..99, isWeapon for Math.random() < 0.5, big in Between(10, 20),
\* small in Between(1, 3)
generateItemData(f, minRarity, roll, isWeapon, big, small) ==
    LET rarity == EnsureMinimum(rolledRarity(roll), minRarity)
        hi == (big * rarityMultiplier[rarity]) \div 2
        lo == (small * rarityMultiplier[rarity]) \div 2
    IN [rarity |-> rarity,
        itemType |-> IF isWeapon THEN "weapon" ELSE "armor",
        attack |-> IF isWeapon THEN hi ELSE lo,
        defense |-> IF isWeapon THEN lo ELSE hi,
        floorObtained |-> f]

damageCooldown == 500

\* new Player(scene, x, y) followed by setBaseStats(bonusAttack, bonusDefense)
NewPlayer == [health |-> 100, maxHealth |-> 100, attack |-> 25, defense |-> 0,
              lastDamageTime |-> 0]
setBaseStatsKept(p, bonusAttack, bonusDefense) == p
setBaseStats(p, bonusAttack, bonusDefense) ==
    [p EXCEPT !.attack = 25 + bonusAttack, !.defense = 0 + bonusDefense]

actualDamageNoMinimum(p, incomingDamage) == incomingDamage - p.defense
actualDamage(p, incomingDamage) == Max(1, incomingDamage - p.defense)

\* if (now - this.lastDamageTime < this.damageCooldown) return
onCooldownNever(p, t) == FALSE
onCooldown(p, t) == t - p.lastDamageTime < damageCooldown

\* Player.takeDamage at Date.now() = t
Player_takeDamage(p, incomingDamage, t) ==
    IF onCooldown(p, t)
    THEN p
    ELSE [p EXCEPT !.lastDamageTime = t,
                   !.health = Max(0, p.health - actualDamage(p, incomingDamage))]

heal(p, amount) == [p EXCEPT !.health = Min(p.maxHealth, p.health + amount)]

equipItem(p, item) ==
    [p EXCEPT !.attack = p.attack + item.attack, !.defense = p.defense + item.defense]


(***************************************************************************)
(* Values of the variables a specification does not use                    *)
(***************************************************************************)

NoPlayer == [health |-> 0, maxHealth |-> 0, attack |-> 0, defense |-> 0,
             lastDamageTime |-> 0]
NoCall == [op |-> "none"]

GenIdle ==
    /\ width = 0 /\ height = 0 /\ floor = 0
    /\ rooms = << >> /\ tiles = {}
    /\ genPc = "none" /\ genI = 0 /\ roomCount = 0

SceneIdle ==
    /\ currentFloor = 1 /\ dropsThisFloor = 0 /\ pendingItems = << >>
    /\ gate = FALSE /\ gateSpawned = FALSE /\ attackCooldown = 0
    /\ player = NoPlayer /\ enemies = << >> /\ items = << >>
    /\ sceneStatus = "none"

AppIdle ==
    /\ showFloorTransition = FALSE /\ showDeathModal = FALSE
    /\ mintingStatus = "idle"
    /\ appCurrentFloor = 1 /\ appPendingItems = << >>
    /\ gameStarted = FALSE
    /\ selectedItems = {}

BusIdle ==
    /\ diedCount = 0 /\ signalAfterDeath = FALSE
    /\ transitionCount = 0 /\ transitionFloor = 0

(***************************************************************************)
(* The generator alone: construction for every floor, and whole runs of    *)
(* generate() on a small grid                                              *)
(***************************************************************************)

InitGen ==
    /\ GenIdle /\ SceneIdle /\ AppIdle /\ BusIdle
    /\ initialEquipmentBonus = [attack |-> 0, defense |-> 0]
    /\ now = 0
    /\ lastCall = NoCall

NotGen == UNCHANGED <<sceneVars, initialEquipmentBonus, appVars, now, busVars, lastCall>>

\* base sizes handed to the constructor; GameScene.create passes 25 x 19
DimBases == {GenBaseWidth, 25, 45, 60} \X {GenBaseHeight, 19, 35, 50}

NextDims ==
    \E b \in DimBases, f \in 1 .. MaxDimFloor : Construct(b[1], b[2], f) /\ NotGen

SpecDims == InitGen /\ [][NextDims]_vars

NextGen ==
    \/ \E f \in 1 .. MaxGenFloor, h \in {GenLowHeight, GenBaseHeight} :
          Construct(GenBaseWidth, h, f) /\ NotGen
    \/ GenerateBegin /\ NotGen
    \/ RoomIteration /\ NotGen
    \/ RoomsDone /\ NotGen
    \/ ConnectIteration /\ NotGen
    \/ GenerateEnd /\ NotGen

SpecGen == InitGen /\ [][NextGen]_vars

(***************************************************************************)
(* The size draws of generateRooms alone, on the floors up to MaxSizeFloor *)
(***************************************************************************)

MaxSizeFloor == 90

\* the first two draws of an attempt: roomWidth and roomHeight
RoomSizeDraw ==
    /\ genPc = "constructed"
    /\ \E w \in roomWidths(floor), h \in roomHeights(floor) :
          lastCall' = [op |-> "roomSize", roomWidth |-> w, roomHeight |-> h]
    /\ UNCHANGED genVars

NextSize ==
    \/ /\ genPc = "none"
       /\ \E f \in 1 .. MaxSizeFloor : Construct(25, 19, f)
       /\ NotGen
    \/ /\ RoomSizeDraw
       /\ UNCHANGED <<sceneVars, initialEquipmentBonus, appVars, now, busVars>>

SpecSize == InitGen /\ [][NextSize]_vars

(***************************************************************************)
(* The first room of generate() on the grid GameScene.create asks for       *)
(* (base 25 x 19), on every floor up to MaxPlaceFloor, with each of the     *)
(* four draws of the attempt at the lowest or the highest value of its      *)
(* range. The room list is empty, so the first attempt is always placed.    *)
(***************************************************************************)
MaxPlaceFloor == 87

Extremes(range) ==
    { v \in range : (\A u \in range : v <= u) \/ (\A u \in range : v >= u) }

FirstRoom ==
    /\ genPc = "rooms"
    /\ genI = 0
    /\ rooms = << >>
    /\ \E roomWidth \in Extremes(roomWidths(floor)),
          roomHeight \in Extremes(roomHeights(floor)) :
       \E x \in Extremes(Between(1, width - roomWidth - 1)),
          y \in Extremes(Between(1, height - roomHeight - 1)) :
          LET newRoom == Room(x, y, roomWidth, roomHeight)
          IN /\ rooms' = << newRoom >>
             /\ IF InRows(newRoom)
                THEN /\ tiles' = carveRoom(tiles, newRoom)
                     /\ genI' = 1
                     /\ genPc' = "rooms"
                ELSE /\ genPc' = "threw"
                     /\ UNCHANGED <<tiles, genI>>
    /\ UNCHANGED <<width, height, floor, roomCount>>

NextPlace ==
    \/ /\ genPc = "none"
       /\ \E f \in 1 .. MaxPlaceFloor : Construct(25, 19, f)
       /\ NotGen
    \/ GenerateBegin /\ NotGen
    \/ FirstRoom /\ NotGen

SpecPlace == InitGen /\ [][NextPlace]_vars


(***************************************************************************)
(* Item generation alone: an enemy of any rarity is defeated and           *)
(* spawnItemFromEnemy builds the Item it drops, for every random draw      *)
(***************************************************************************)

MaxItemFloor == 2

\* new Item(scene, x, y, currentFloor, enemy.getMinDropRarity()) of spawnItemFromEnemy
NewItem(f, e, roll, isWeapon, big, small) ==
    [data |-> generateItemData(f, getMinDropRarity(e), roll, isWeapon, big, small),
     active |-> TRUE]

ItemNewEnemy ==
    \E f \in 1 .. MaxItemFloor, r \in { rollRarity(roll) : roll \in 0 .. 100 } :
        /\ currentFloor' = f
        /\ enemies' = << NewEnemy(f, r) >>
        /\ items' = << >>
        /\ lastCall' = [op |-> "Enemy"]

ItemDrop ==
    /\ Len(enemies) = 1
    /\ items = << >>
    /\ \E roll \in 0 .. 99, isWeapon \in BOOLEAN,
          big \in Between(10, 20), small \in Between(1, 3) :
          /\ items' = << NewItem(currentFloor, enemies[1], roll, isWeapon, big, small) >>
          /\ lastCall' = [op |-> "Item", roll |-> roll]
    /\ UNCHANGED <<currentFloor, enemies>>

NotItem ==
    UNCHANGED <<genVars, dropsThisFloor, pendingItems, gate, gateSpawned,
                attackCooldown, player, sceneStatus, initialEquipmentBonus,
                appVars, now, busVars>>

NextItem ==
    \/ ItemNewEnemy /\ NotItem
    \/ ItemDrop /\ NotItem

SpecItem == InitGen /\ [][NextItem]_vars

(***************************************************************************)
(* Enemy construction alone: two enemies of one rarity on two floors       *)
(***************************************************************************)

MaxStatFloor == 7

StatsPair ==
    \E r \in EnemyRarity, f1 \in 1 .. MaxStatFloor, f2 \in 1 .. MaxStatFloor :
        /\ f1 <= f2
        /\ enemies' = << NewEnemy(f1, r), NewEnemy(f2, r) >>
        /\ lastCall' = [op |-> "EnemyPair", floors |-> << f1, f2 >>]

NextStats ==
    StatsPair /\ UNCHANGED <<genVars, currentFloor, dropsThisFloor, pendingItems,
                             gate, gateSpawned, attackCooldown, player, items,
                             sceneStatus, initialEquipmentBonus, appVars, now,
                             busVars>>

SpecStats == InitGen /\ [][NextStats]_vars

\* two enemies of any two rarities, built on any two floors
RarityPair ==
    \E r1 \in EnemyRarity, r2 \in EnemyRarity,
       f1 \in 1 .. MaxStatFloor, f2 \in 1 .. MaxStatFloor :
        /\ enemies' = << NewEnemy(f1, r1), NewEnemy(f2, r2) >>
        /\ lastCall' = [op |-> "RarityPair", floors |-> << f1, f2 >>]

NextRarity ==
    RarityPair /\ UNCHANGED <<genVars, currentFloor, dropsThisFloor, pendingItems,
                              gate, gateSpawned, attackCooldown, player, items,
                              sceneStatus, initialEquipmentBonus, appVars, now,
                              busVars>>

SpecRarity == InitGen /\ [][NextRarity]_vars

(***************************************************************************)
(* Player and Enemy alone: any sequence of takeDamage and heal calls       *)
(***************************************************************************)

\* Date.now() is followed up to MaxNow, in steps of ClockStep
MaxNow == 1500
ClockStep == 500
MaxEntityFloor == 2

Incomings == {0, 5, 30, 120}
BonusDefenses == {0, 10}
HealAmounts == {0, 30, 200}
EnemyDamages == {0, 40, 1000}

\* a fresh Player has lastDamageTime = 0 and Date.now() is far beyond the
\* cooldown: the clock restarts at damageCooldown, the least such time
EntityNewPlayer ==
    \E d \in BonusDefenses :
        /\ player' = setBaseStats(NewPlayer, 0, d)
        /\ enemies' = << >>
        /\ now' = damageCooldown
        /\ lastCall' = [op |-> "Player"]

EntityNewEnemy ==
    \E f \in 1 .. MaxEntityFloor, r \in EnemyRarity :
        /\ enemies' = << NewEnemy(f, r) >>
        /\ player' = NoPlayer
        /\ lastCall' = [op |-> "Enemy"]
        /\ UNCHANGED now

EntityPlayerTakeDamage ==
    /\ player # NoPlayer
    /\ \E incoming \in Incomings :
          /\ player' = Player_takeDamage(player, incoming, now)
          /\ lastCall' = [op |-> "Player.takeDamage", amount |-> incoming,
                          before |-> player, at |-> now]
    /\ UNCHANGED <<enemies, now>>

EntityPlayerHeal ==
    /\ player # NoPlayer
    /\ \E amount \in HealAmounts :
          /\ player' = heal(player, amount)
          /\ lastCall' = [op |-> "Player.heal", amount |-> amount,
                          before |-> player, at |-> now]
    /\ UNCHANGED <<enemies, now>>

EntityEnemyTakeDamage ==
    /\ Len(enemies) = 1
    /\ \E amount \in EnemyDamages :
          /\ enemies' = << Enemy_takeDamage(enemies[1], amount) >>
          /\ lastCall' = [op |-> "Enemy.takeDamage", amount |-> amount,
                          before |-> enemies[1], at |-> now]
    /\ UNCHANGED <<player, now>>

EntityClock ==
    /\ player # NoPlayer
    /\ now + ClockStep <= MaxNow
    /\ now' = now + ClockStep
    /\ UNCHANGED <<player, enemies, lastCall>>

NotEntity ==
    UNCHANGED <<genVars, currentFloor, dropsThisFloor, pendingItems, gate,
                gateSpawned, attackCooldown, items, sceneStatus,
                initialEquipmentBonus, appVars, busVars>>

NextEntity ==
    \/ EntityNewPlayer /\ NotEntity
    \/ EntityNewEnemy /\ NotEntity
    \/ EntityPlayerTakeDamage /\ NotEntity
    \/ EntityPlayerHeal /\ NotEntity
    \/ EntityEnemyTakeDamage /\ NotEntity
    \/ EntityClock /\ NotEntity

SpecEntity == InitGen /\ [][NextEntity]_vars

(***************************************************************************)
(* The damage cooldown alone: one Player overlapped by up to               *)
(* MaxOverlapping enemies, whose callbacks call takeDamage at a Date.now() *)
(* that advances by steps shorter than the cooldown.  lastCall carries the *)
(* time of the last call that reduced health (-1: none yet).               *)
(***************************************************************************)

MaxOverlapping == 3
MaxDamageNow == 2000
DamageSteps == {200, 300}
DamageFloors == {1, 7}
DamageRarities == {"normal", "legendary"}

DamageNewPlayer ==
    /\ \E d \in BonusDefenses :
          player' = setBaseStats(NewPlayer, 0, d)
    /\ \E n \in 1 .. MaxOverlapping, f \in DamageFloors, r \in DamageRarities :
          enemies' = [k \in 1 .. n |-> NewEnemy(f, r)]
    /\ now' = damageCooldown
    /\ lastCall' = [op |-> "Player", lastReduction |-> -1]

\* handlePlayerEnemyCollision of enemy k, as far as the Player is concerned
DamageCollision(k) ==
    /\ player # NoPlayer
    /\ enemies[k].active
    /\ player' = Player_takeDamage(player, enemies[k].attack, now)
    /\ lastCall' = [op |-> "Player.takeDamage", at |-> now, before |-> player,
                    reduced |-> player'.health < player.health,
                    previousReduction |-> lastCall.lastReduction,
                    lastReduction |-> IF player'.health < player.health THEN now
                                      ELSE lastCall.lastReduction]
    /\ UNCHANGED <<enemies, now>>

DamageClock ==
    /\ player # NoPlayer
    /\ \E step \in DamageSteps :
          /\ now + step <= MaxDamageNow
          /\ now' = now + step
    /\ UNCHANGED <<player, enemies, lastCall>>

NextDamage ==
    \/ DamageNewPlayer /\ NotEntity
    \/ \E k \in 1 .. Len(enemies) : DamageCollision(k) /\ NotEntity
    \/ DamageClock /\ NotEntity

SpecDamage == InitGen /\ [][NextDamage]_vars


(***************************************************************************)
(* The run: GameScene (latest revision), PhaserGame and GameApp            *)
(*                                                                         *)
(* A frame of the scene is any number of overlap callbacks (one per        *)
(* overlapping body and physics step) followed by update().  scene.pause() *)
(* takes effect when the frame is over: the callbacks still to come in the *)
(* frame and its update() run with sceneStatus = "pausing".                *)
(***************************************************************************)

MaxFloor == 2
MaxEnemies == 3
MaxSceneRooms == 2
\* saturation of the event counters
MaxSignals == 2

maxDropsPerFloor == 2
attackCooldownTime == 400

\* the frame length handed to update() as game.loop.delta, which is also the
\* advance of Date.now() from one frame to the next
Deltas == {ClockStep}

\* equipment bonuses MainMenu.handlePlayGame may store
Bonuses == { [attack |-> 0, defense |-> 0], [attack |-> 25, defense |-> 5] }

\* rarities rollRarity gives the enemies of the run
SpawnRarities == { rollRarity(roll) : roll \in {0} }

\* the random draws of one spawnItemFromEnemy: Math.random() in percent against
\* dropChance, then the draws of generateItemData
Draws ==
    [dropRoll : {99}, roll : {0}, isWeapon : {TRUE}, big : {10}, small : {3}]
    \cup [dropRoll : {0}, roll : {0, 99}, isWeapon : {TRUE}, big : {10}, small : {3}]

\* layouts generate() can produce on the 25 x 19 base: the first n of three rooms
SampleRooms(n) ==
    SubSeq(<< Room(1, 1, 4, 4), Room(9, 2, 5, 4), Room(17, 1, 4, 5) >>, 1, n)

RECURSIVE CarveAll(_, _, _)
CarveAll(t, rs, k) ==
    IF k > Len(rs) THEN t ELSE CarveAll(carveRoom(t, rs[k]), rs, k + 1)

RECURSIVE ConnectAll(_, _, _)
ConnectAll(t, rs, k) ==
    IF k > Len(rs) THEN t
    ELSE ConnectAll(HorizontalFirst(t, rs[k - 1], rs[k]), rs, k + 1)

Layout == ConnectAll(CarveAll(AllWalls, rooms, 1), rooms, 2)

\* enemyCount of spawnEnemies for a room whose baseCount is base
enemyCountUncapped(f, base) == base + ((f - 1) \div 2)
enemyCount(f, base) == Min(5, base + ((f - 1) \div 2))

RECURSIVE SumCounts(_, _, _)
SumCounts(f, bases, k) ==
    IF k > Len(bases) THEN 0 ELSE enemyCount(f, bases[k]) + SumCounts(f, bases, k + 1)

\* the baseCount draws of the rooms after the spawn room
BaseCounts(n) == [1 .. (n - 1) -> Between(1, 3)]

countActive(es) == Cardinality({ k \in 1 .. Len(es) : es[k].active })

\* init(data) and create(): the dungeon, the player with the stored bonuses, the
\* enemies of every room but the first; the EventBus history starts afresh
StartScene(f, pending, bonus, cooldown) ==
    /\ currentFloor' = f
    /\ pendingItems' = pending
    /\ dropsThisFloor' = 0
    /\ gateSpawned' = FALSE
    /\ gate' = FALSE
    /\ attackCooldown' = cooldown
    /\ width' = ConstructorWidth(25, f)
    /\ height' = ConstructorHeight(19, f)
    /\ floor' = f
    /\ \E n \in 1 .. MaxSceneRooms :
          /\ rooms' = SampleRooms(n)
          /\ roomCount' = n
          /\ genI' = n
          /\ \E bases \in BaseCounts(n) :
                /\ SumCounts(f, bases, 1) <= MaxEnemies
                /\ \E rar \in [1 .. SumCounts(f, bases, 1) -> SpawnRarities] :
                      enemies' = [k \in 1 .. SumCounts(f, bases, 1) |-> NewEnemy(f, rar[k])]
    /\ tiles' = Layout'
    /\ genPc' = "done"
    /\ player' = setBaseStats(NewPlayer, bonus.attack, bonus.defense)
    /\ items' = << >>
    /\ sceneStatus' = "running"
    /\ now' = damageCooldown
    /\ diedCount' = 0
    /\ signalAfterDeath' = FALSE
    /\ transitionCount' = 0
    /\ transitionFloor' = 0
    /\ lastCall' = [op |-> "create", afterDeath |-> diedCount > 0,
                    afterTransition |-> transitionCount > 0,
                    cleared |-> Len(pendingItems),
                    confirmed |-> IF mintingStatus = "success" THEN selectedItems
                                  ELSE {}]

InFrame == sceneStatus \in {"running", "pausing"}

\* clicks are handled between frames, never between a pause() and the update()
\* of its frame
BetweenFrames == sceneStatus # "pausing"

\* MainMenu.handlePlayGame, then the new Phaser.Game boots into GameScene
PlayGame ==
    /\ ~gameStarted
    /\ \E bonus \in Bonuses :
          /\ initialEquipmentBonus' = bonus
          /\ StartScene(1, << >>, bonus, 0)
    /\ gameStarted' = TRUE
    /\ UNCHANGED <<showFloorTransition, showDeathModal, mintingStatus,
                   appCurrentFloor, appPendingItems, selectedItems>>

\* GameApp.handlePlayerDied, run by EventBus.emit('player-died', data)
handlePlayerDied(data) ==
    IF Len(data) > 0
    THEN /\ appPendingItems' = data
         /\ appCurrentFloor' = 1
         /\ showFloorTransition' = TRUE
         /\ mintingStatus' = "idle"
         /\ UNCHANGED showDeathModal
    ELSE /\ showDeathModal' = TRUE
         /\ UNCHANGED <<appPendingItems, appCurrentFloor, showFloorTransition,
                        mintingStatus>>

\* physics.add.overlap(player.sprite, enemies, ...): only the sprites still in
\* the group, which a destroyed sprite has left, are tested against the player
overlapsDestroyed(e) == TRUE
overlaps(e) == e.active

\* the overlap callback of the player and enemy k
handlePlayerEnemyCollision(k) ==
    /\ InFrame
    /\ k \in 1 .. Len(enemies)
    /\ overlaps(enemies[k])
    /\ player' = Player_takeDamage(player, enemies[k].attack, now)
    /\ signalAfterDeath' = (signalAfterDeath \/ diedCount > 0)
    /\ IF player'.health <= 0
       THEN /\ diedCount' = Min(diedCount + 1, MaxSignals)
            /\ handlePlayerDied(pendingItems)
            /\ sceneStatus' = "pausing"
       ELSE UNCHANGED <<diedCount, showFloorTransition, showDeathModal, mintingStatus,
                        appCurrentFloor, appPendingItems, sceneStatus>>
    /\ lastCall' = [op |-> "handlePlayerEnemyCollision"]
    /\ UNCHANGED <<genVars, currentFloor, dropsThisFloor, pendingItems, gate,
                   gateSpawned, attackCooldown, enemies, items,
                   initialEquipmentBonus, gameStarted, selectedItems, now,
                   transitionCount,
                   transitionFloor>>

\* this.pendingItems.push(itemData)
pendingAfterPickupOnly(pending, itemData) == << itemData >>
pendingAfterPickup(pending, itemData) == Append(pending, itemData)

\* Item.destroy(): the sprite leaves the items group, the data record stays
Item_destroySkipped(item) == item
Item_destroy(item) == [item EXCEPT !.active = FALSE]

\* the player after a pickup: handleItemPickup no longer calls Player.equipItem,
\* picked up items are only collected for minting
playerAfterPickupEquipped(p, itemData) ==
    [p EXCEPT !.attack = p.attack + itemData.attack,
              !.defense = p.defense + itemData.defense]
playerAfterPickup(p, itemData) == p

\* the overlap callback of the player and item i
handleItemPickup(i) ==
    /\ InFrame
    /\ i \in 1 .. Len(items)
    /\ items[i].active
    /\ pendingItems' = pendingAfterPickup(pendingItems, items[i].data)
    \* the array GameApp received in 'floor-transition' is this same array
    /\ appPendingItems' = IF showFloorTransition THEN pendingItems'
                          ELSE appPendingItems
    /\ player' = playerAfterPickup(player, items[i].data)
    /\ items' = [items EXCEPT ![i] = Item_destroy(items[i])]
    /\ lastCall' = [op |-> "handleItemPickup",
                    afterTransition |-> transitionCount > 0]
    /\ UNCHANGED <<genVars, currentFloor, dropsThisFloor, gate, gateSpawned,
                   attackCooldown, enemies, sceneStatus,
                   initialEquipmentBonus, showFloorTransition, showDeathModal,
                   mintingStatus, appCurrentFloor, gameStarted, selectedItems,
                   now, busVars>>

\* the gate sprite after handleGateCollision: destroyed and set to null
gateAfterCollisionKept(g) == g
gateAfterCollision(g) == FALSE

\* GameApp.handleFloorTransition, run by EventBus.emit('floor-transition', data)
handleFloorTransition(data) ==
    /\ appCurrentFloor' = data.floor
    /\ appPendingItems' = data.pendingItems
    /\ showFloorTransition' = TRUE
    /\ mintingStatus' = "idle"
    /\ UNCHANGED <<showDeathModal, gameStarted, selectedItems>>

\* the overlap callback of the player and the gate sprite
handleGateCollision ==
    /\ InFrame
    /\ gate
    /\ transitionCount' = Min(transitionCount + 1, MaxSignals)
    /\ transitionFloor' = currentFloor
    /\ handleFloorTransition([floor |-> currentFloor, pendingItems |-> pendingItems])
    /\ gate' = gateAfterCollision(gate)
    /\ lastCall' = [op |-> "handleGateCollision"]
    /\ UNCHANGED <<genVars, currentFloor, dropsThisFloor, pendingItems, gateSpawned,
                   attackCooldown, player, enemies, items, sceneStatus,
                   initialEquipmentBonus, now, diedCount, signalAfterDeath>>

\* the per-floor cap of spawnItemFromEnemy
canDropUncapped(drops) == TRUE
canDrop(drops) == drops < maxDropsPerFloor

\* shouldDrop = Math.random() < enemy.dropChance, both in hundredths
shouldDropAlways(dropRoll, dropChance) == TRUE
shouldDrop(dropRoll, dropChance) == dropRoll < dropChance

\* spawnItemFromEnemy(enemy) with its random draws, on the scene fields st
spawnItemFromEnemy(st, e, draw) ==
    IF shouldDrop(draw.dropRoll, e.dropChance) /\ canDrop(st.dropsThisFloor)
    THEN [st EXCEPT
            !.items = Append(st.items,
                NewItem(currentFloor, e, draw.roll, draw.isWeapon, draw.big, draw.small)),
            !.dropsThisFloor = st.dropsThisFloor + 1]
    ELSE st

\* Enemy.destroy(): the sprite leaves the enemies group
Enemy_destroySkipped(e) == e
Enemy_destroy(e) == [e EXCEPT !.active = FALSE]

\* the forEach of performAttack from enemy k on: inRange holds the enemies within
\* attackRange and the 90 degree arc, draws the random draws of those that die
RECURSIVE AttackFrom(_, _, _, _)
AttackFrom(st, k, inRange, draws) ==
    IF k > Len(st.enemies) THEN st
    ELSE IF st.enemies[k].active /\ k \in inRange
         THEN LET hit == Enemy_takeDamage(st.enemies[k], player.attack)
              IN IF hit.health <= 0
                 THEN AttackFrom(
                        [spawnItemFromEnemy(st, hit, draws[k])
                            EXCEPT !.enemies[k] = Enemy_destroy(hit)],
                        k + 1, inRange, draws)
                 ELSE AttackFrom([st EXCEPT !.enemies[k] = hit], k + 1, inRange, draws)
         ELSE AttackFrom(st, k + 1, inRange, draws)

performAttack(st, inRange, draws) ==
    IF st.attackCooldown > 0 THEN st
    ELSE AttackFrom([st EXCEPT !.attackCooldown = attackCooldownTime], 1, inRange, draws)

SceneFields ==
    [attackCooldown |-> attackCooldown, enemies |-> enemies, items |-> items,
     dropsThisFloor |-> dropsThisFloor]

\* the enemies of inRange an attack would kill
Dying(inRange) ==
    { k \in inRange : enemies[k].active
                      /\ Enemy_takeDamage(enemies[k], player.attack).health <= 0 }

ActiveEnemies == { k \in 1 .. Len(enemies) : enemies[k].active }

\* damage an attack deals after the player has died
AttackSignal(st) == diedCount > 0 /\ st.enemies # enemies

(***************************************************************************)
(* The drop step alone: one enemy at a time is attacked until it dies, with *)
(* every rarity and with drop rolls on both sides of every dropChance.      *)
(***************************************************************************)
DropRolls == {0, 19, 20, 34, 35, 49, 50, 69, 70, 94, 95, 99}
DropDraws == [dropRoll : DropRolls, roll : {0, 99}, isWeapon : {TRUE}, big : {10},
              small : {3}]

\* create(): a new player with the equipment bonus, no item, no drop yet
DropCreate ==
    \E bonus \in Bonuses :
        /\ player' = setBaseStats(NewPlayer, bonus.attack, bonus.defense)
        /\ enemies' = << >>
        /\ items' = << >>
        /\ dropsThisFloor' = 0
        /\ lastCall' = [op |-> "GameScene.create"]

\* the next enemy of the floor comes within reach
DropNewEnemy ==
    /\ player # NoPlayer
    /\ \E r \in EnemyRarity :
          enemies' = << NewEnemy(currentFloor, r) >>
    /\ lastCall' = [op |-> "Enemy"]
    /\ UNCHANGED <<player, items, dropsThisFloor>>

\* the forEach of performAttack with that enemy in range
DropAttack ==
    /\ Len(enemies) = 1
    /\ enemies[1].active
    /\ \E draw \in DropDraws :
          LET st == AttackFrom(SceneFields, 1, {1}, [k \in {1} |-> draw])
          IN /\ enemies' = st.enemies
             /\ items' = st.items
             /\ dropsThisFloor' = st.dropsThisFloor
             /\ lastCall' = [op |-> "spawnItemFromEnemy",
                             died |-> ~st.enemies[1].active,
                             dropRoll |-> draw.dropRoll,
                             dropChance |-> enemies[1].dropChance]
    /\ UNCHANGED player

NotDrop ==
    UNCHANGED <<genVars, currentFloor, pendingItems, gate, gateSpawned,
                attackCooldown, sceneStatus, initialEquipmentBonus, appVars, now,
                busVars>>

NextDrop ==
    \/ DropCreate /\ NotDrop
    \/ DropNewEnemy /\ NotDrop
    \/ DropAttack /\ NotDrop

SpecDrop == InitGen /\ [][NextDrop]_vars

(***************************************************************************)
(* spawnEnemies alone, one iteration of its outer loop at a time, on floors *)
(* high enough for the cap of enemyCount to matter. An entry of enemies is  *)
(* here the sprite: its pixel position, the index i of its room (0-based as *)
(* in the source) and the Enemy it refers to.                               *)
(***************************************************************************)
MaxSpawnFloor == 7
MaxSpawnRooms == 3

\* the tiles Between(room.x + 1, room.x + room.width - 2) x Between(room.y + 1,
\* room.y + room.height - 2) can give
spawnTiles(room) ==
    Between(room.x + 1, room.x + room.width - 2)
        \X Between(room.y + 1, room.y + room.height - 2)

\* the two extreme draws of a room
SpawnCorners(room) ==
    { << room.x + 1, room.y + 1 >>,
      << room.x + room.width - 2, room.y + room.height - 2 >> }

\* create() up to the call of spawnEnemies
SpawnCreate ==
    \E f \in 1 .. MaxSpawnFloor, n \in 1 .. MaxSpawnRooms :
        /\ currentFloor' = f
        /\ rooms' = SampleRooms(n)
        /\ enemies' = << >>
        /\ lastCall' = [op |-> "GameScene.create"]

\* the value of i in the outer loop of spawnEnemies
SpawnI == IF enemies = << >> THEN 1 ELSE enemies[Len(enemies)].room + 1

\* one iteration of the outer loop: the enemies of rooms[i]
SpawnRoom ==
    /\ rooms # << >>
    /\ SpawnI < Len(rooms)
    /\ LET room == rooms[SpawnI + 1]
       IN \E baseCount \in Between(1, 3) :
          \E at \in [1 .. enemyCount(currentFloor, baseCount) -> SpawnCorners(room)] :
             enemies' = enemies \o
                [j \in 1 .. enemyCount(currentFloor, baseCount) |->
                    [x |-> at[j][1] * 32 + 16, y |-> at[j][2] * 32 + 16,
                     room |-> SpawnI,
                     ref |-> NewEnemy(currentFloor, "normal")]]
    /\ lastCall' = [op |-> "spawnEnemies"]
    /\ UNCHANGED <<currentFloor, rooms>>

NotSpawn ==
    UNCHANGED <<width, height, floor, tiles, genPc, genI, roomCount,
                dropsThisFloor, pendingItems, gate, gateSpawned, attackCooldown,
                player, items, sceneStatus, initialEquipmentBonus, appVars, now,
                busVars>>

NextSpawn ==
    \/ SpawnCreate /\ NotSpawn
    \/ SpawnRoom /\ NotSpawn

SpecSpawn == InitGen /\ [][NextSpawn]_vars

\* the pointerdown listener of create()
PointerDown ==
    /\ sceneStatus = "running"
    /\ \E inRange \in SUBSET ActiveEnemies :
       \E draws \in [Dying(inRange) -> Draws] :
          LET st == performAttack(SceneFields, inRange, draws)
          IN /\ attackCooldown' = st.attackCooldown
             /\ enemies' = st.enemies
             /\ items' = st.items
             /\ dropsThisFloor' = st.dropsThisFloor
             /\ signalAfterDeath' = (signalAfterDeath \/ AttackSignal(st))
    /\ lastCall' = [op |-> "performAttack"]
    /\ UNCHANGED <<genVars, currentFloor, pendingItems, gate, gateSpawned, player,
                   sceneStatus, initialEquipmentBonus, appVars, now, diedCount,
                   transitionCount, transitionFloor>>

\* Date.now() one frame later; the clock is not followed beyond the end of the
\* damage cooldown, after which Player.takeDamage no longer looks at it
Later(delta) == Min(now + delta, Max(now, player.lastDamageTime + damageCooldown))

\* update(): if (this.attackCooldown > 0) this.attackCooldown -= delta
cooldownAfterFrame(cooldown, delta) ==
    IF cooldown > 0 THEN cooldown - delta ELSE cooldown

\* the gate check at the end of update()
shouldSpawnGateUnchecked(spawned, es) == ~spawned
shouldSpawnGate(spawned, es) == ~spawned /\ countActive(es) = 0

\* spawnGate: the sprite position and the payload of 'gate-spawned'
spawnGate ==
    [event |-> "gate-spawned", floor |-> currentFloor,
     gateX |-> getLastRoomCenter.x * 32 + 16,
     gateY |-> getLastRoomCenter.y * 32 + 16]

\* update(): the attack key, the attack cooldown, the gate check (spawnGate)
update ==
    /\ InFrame
    /\ \E delta \in Deltas, justDown \in BOOLEAN :
       \E inRange \in (IF justDown THEN SUBSET ActiveEnemies ELSE {{}}) :
       \E draws \in [Dying(inRange) -> Draws] :
          LET st == IF justDown THEN performAttack(SceneFields, inRange, draws)
                    ELSE SceneFields
          IN /\ attackCooldown' = cooldownAfterFrame(st.attackCooldown, delta)
             /\ enemies' = st.enemies
             /\ items' = st.items
             /\ dropsThisFloor' = st.dropsThisFloor
             /\ signalAfterDeath' = (signalAfterDeath \/ AttackSignal(st))
             /\ IF shouldSpawnGate(gateSpawned, st.enemies)
                THEN /\ gateSpawned' = TRUE
                     /\ gate' = TRUE
                     /\ lastCall' = [op |-> "update", emitted |-> << spawnGate >>]
                ELSE /\ UNCHANGED <<gateSpawned, gate>>
                     /\ lastCall' = [op |-> "update", emitted |-> << >>]
             /\ now' = Later(delta)
    /\ sceneStatus' = IF sceneStatus = "pausing" THEN "paused" ELSE sceneStatus
    /\ UNCHANGED <<genVars, currentFloor, pendingItems, player,
                   initialEquipmentBonus, appVars, diedCount, transitionCount,
                   transitionFloor>>

(***************************************************************************)
(* The attack cooldown alone, with frames shorter than the cooldown: one    *)
(* enemy that takes several hits, attacks by the space key (in update) and  *)
(* by pointer clicks (between two frames). Since the last attack that took  *)
(* effect (-1: none yet in this game), lastCall.sinceAttack is the sum of   *)
(* the deltas that update() has subtracted or would have subtracted, and    *)
(* lastCall.elapsed the sum of the deltas of the frames that began after    *)
(* it, which leaves out the frame whose update() made the attack; gap is    *)
(* the value elapsed had when the attack of this call took effect.          *)
(***************************************************************************)
CooldownDeltas == {100, 150}
MaxSince == 600

\* new Phaser.Game: a scene whose attackCooldown field is 0
CooldownGame ==
    /\ attackCooldown' = 0
    /\ player' = setBaseStats(NewPlayer, 0, 0)
    /\ enemies' = << NewEnemy(currentFloor, "legendary") >>
    /\ items' = << >>
    /\ dropsThisFloor' = 0
    /\ sceneStatus' = "running"
    /\ lastCall' = [op |-> "Game", tookEffect |-> FALSE, sinceAttack |-> -1,
                    elapsed |-> -1, gap |-> -1]

\* scene.restart: init() and create() leave attackCooldown as it is
CooldownRestart ==
    /\ sceneStatus = "running"
    /\ player' = setBaseStats(NewPlayer, 0, 0)
    /\ enemies' = << NewEnemy(currentFloor, "legendary") >>
    /\ items' = << >>
    /\ dropsThisFloor' = 0
    /\ lastCall' = [op |-> "restart", tookEffect |-> FALSE,
                    sinceAttack |-> lastCall.sinceAttack,
                    elapsed |-> lastCall.elapsed, gap |-> -1]
    /\ UNCHANGED <<attackCooldown, sceneStatus>>

\* the pointerdown listener
CooldownPointerDown ==
    /\ sceneStatus = "running"
    /\ \E inRange \in SUBSET ActiveEnemies :
       \E draws \in [Dying(inRange) -> Draws] :
          LET st == performAttack(SceneFields, inRange, draws)
          IN /\ attackCooldown' = st.attackCooldown
             /\ enemies' = st.enemies
             /\ items' = st.items
             /\ dropsThisFloor' = st.dropsThisFloor
    /\ lastCall' = [op |-> "pointerdown", tookEffect |-> ~(attackCooldown > 0),
                    sinceAttack |-> IF attackCooldown > 0 THEN lastCall.sinceAttack
                                    ELSE 0,
                    elapsed |-> IF attackCooldown > 0 THEN lastCall.elapsed ELSE 0,
                    gap |-> IF attackCooldown > 0 THEN -1 ELSE lastCall.elapsed]
    /\ UNCHANGED <<player, sceneStatus>>

\* update(): the space key, then the cooldown
CooldownUpdate ==
    /\ sceneStatus = "running"
    /\ \E delta \in CooldownDeltas, justDown \in BOOLEAN :
       \E inRange \in (IF justDown THEN SUBSET ActiveEnemies ELSE {{}}) :
       \E draws \in [Dying(inRange) -> Draws] :
          LET st == IF justDown THEN performAttack(SceneFields, inRange, draws)
                    ELSE SceneFields
              tookEffect == justDown /\ ~(attackCooldown > 0)
              since == IF tookEffect THEN 0 ELSE lastCall.sinceAttack
          IN /\ attackCooldown' = cooldownAfterFrame(st.attackCooldown, delta)
             /\ enemies' = st.enemies
             /\ items' = st.items
             /\ dropsThisFloor' = st.dropsThisFloor
             /\ lastCall' = [op |-> IF justDown THEN "update, space" ELSE "update",
                             tookEffect |-> tookEffect,
                             sinceAttack |-> IF since = -1 THEN -1
                                             ELSE Min(since + delta, MaxSince),
                             elapsed |-> IF tookEffect THEN 0
                                         ELSE IF lastCall.elapsed = -1 THEN -1
                                         ELSE Min(lastCall.elapsed + delta, MaxSince),
                             gap |-> IF tookEffect
                                     THEN IF lastCall.elapsed = -1 THEN -1
                                          ELSE Min(lastCall.elapsed + delta, MaxSince)
                                     ELSE -1]
    /\ UNCHANGED <<player, sceneStatus>>

NotCooldown ==
    UNCHANGED <<genVars, currentFloor, pendingItems, gate, gateSpawned,
                initialEquipmentBonus, appVars, now, busVars>>

NextCooldown ==
    \/ CooldownGame /\ NotCooldown
    \/ CooldownRestart /\ NotCooldown
    \/ CooldownPointerDown /\ NotCooldown
    \/ CooldownUpdate /\ NotCooldown

SpecCooldown == InitGen /\ [][NextCooldown]_vars

\* the data GameScene.proceedToNextFloor hands to scene.restart
proceedToNextFloorCarrying(f, pending) == [floor |-> f + 1, pendingItems |-> pending]
proceedToNextFloor(f, pending) == [floor |-> f + 1, pendingItems |-> << >>]

\* GameApp.handleSkipOrContinue: the Skip / Continue buttons of the floor modal;
\* 'proceed-to-next-floor' runs PhaserGame.handleProceedToNextFloor and
\* GameScene.proceedToNextFloor, whose scene.restart runs init and create
handleSkipOrContinue ==
    /\ BetweenFrames
    /\ gameStarted
    /\ showFloorTransition
    /\ mintingStatus # "minting"
    /\ currentFloor < MaxFloor
    /\ showFloorTransition' = FALSE
    /\ appPendingItems' = << >>
    /\ selectedItems' = {}
    /\ mintingStatus' = "idle"
    /\ appCurrentFloor' = appCurrentFloor + 1
    /\ LET data == proceedToNextFloor(currentFloor, pendingItems)
       IN StartScene(data.floor, data.pendingItems, initialEquipmentBonus,
                     attackCooldown)
    /\ UNCHANGED <<showDeathModal, gameStarted, initialEquipmentBonus>>

\* GameApp.handleConfirmMint with a non-empty selection and a connected wallet
handleConfirmMint ==
    /\ BetweenFrames
    /\ gameStarted
    /\ showFloorTransition
    /\ mintingStatus \in {"idle", "error"}
    /\ Len(appPendingItems) > 0
    /\ \E selected \in SUBSET (1 .. Len(appPendingItems)) \ {{}} :
          selectedItems' = selected
    /\ mintingStatus' = "minting"
    /\ lastCall' = [op |-> "handleConfirmMint"]
    /\ UNCHANGED <<genVars, sceneVars, initialEquipmentBonus, showFloorTransition,
                   showDeathModal, appCurrentFloor, appPendingItems, gameStarted,
                   now, busVars>>

\* signAndExecute resolves or rejects
MintSettles ==
    /\ BetweenFrames
    /\ mintingStatus = "minting"
    /\ \E ok \in BOOLEAN :
          /\ mintingStatus' = IF ok THEN "success" ELSE "error"
          /\ lastCall' = [op |-> "signAndExecute", ok |-> ok]
    /\ UNCHANGED <<genVars, sceneVars, initialEquipmentBonus, showFloorTransition,
                   showDeathModal, appCurrentFloor, appPendingItems, gameStarted,
                   selectedItems,
                   now, busVars>>

\* the program without a game: the values of GenIdle and SceneIdle
NoGame ==
    /\ width' = 0 /\ height' = 0 /\ floor' = 0
    /\ rooms' = << >> /\ tiles' = {}
    /\ genPc' = "none" /\ genI' = 0 /\ roomCount' = 0
    /\ currentFloor' = 1 /\ dropsThisFloor' = 0 /\ pendingItems' = << >>
    /\ gate' = FALSE /\ gateSpawned' = FALSE /\ attackCooldown' = 0
    /\ player' = NoPlayer /\ enemies' = << >> /\ items' = << >>
    /\ sceneStatus' = "none"
    /\ now' = 0

\* the Menu button: setGameStarted(false) unmounts PhaserGame, whose cleanup
\* destroys the game; the state of GameApp stays.  The modals overlay the page,
\* so the button is taken to be out of reach while one is shown.
MenuButton ==
    /\ BetweenFrames
    /\ gameStarted
    /\ ~showFloorTransition /\ ~showDeathModal
    /\ gameStarted' = FALSE
    /\ NoGame
    /\ lastCall' = [op |-> "setGameStarted"]
    /\ UNCHANGED <<initialEquipmentBonus, showFloorTransition, showDeathModal,
                   mintingStatus, appCurrentFloor, appPendingItems, selectedItems,
                   busVars>>

\* the button of the death modal: window.location.reload()
Reload ==
    /\ BetweenFrames
    /\ gameStarted
    /\ showDeathModal
    /\ NoGame
    /\ showFloorTransition' = FALSE /\ showDeathModal' = FALSE
    /\ mintingStatus' = "idle"
    /\ appCurrentFloor' = 1 /\ appPendingItems' = << >>
    /\ gameStarted' = FALSE
    /\ selectedItems' = {}
    /\ initialEquipmentBonus' = [attack |-> 0, defense |-> 0]
    /\ lastCall' = [op |-> "reload"]
    /\ UNCHANGED busVars

Init == InitGen

Next ==
    \/ PlayGame
    \/ \E k \in 1 .. Len(enemies) : handlePlayerEnemyCollision(k)
    \/ \E i \in 1 .. Len(items) : handleItemPickup(i)
    \/ handleGateCollision
    \/ PointerDown
    \/ update
    \/ handleSkipOrContinue
    \/ handleConfirmMint
    \/ MintSettles
    \/ MenuButton
    \/ Reload

Spec == Init /\ [][Next]_vars


(***************************************************************************)
(* Properties of the run                                                   *)
(***************************************************************************)

\* C1: a scene emits player-died at most once, and once it has, no collision
\* callback reports again and no attack damages an enemy until the scene is
\* started anew, whatever the order and number of the collision callbacks.
C1_OneDeathSignal ==
    diedCount <= 1 /\ ~signalAfterDeath

\* C2: on floor 1 with no equipment bonus, the gate is spawned by the update()
\* that finds no active enemy and not before; floor-transition is emitted at
\* most once per scene, by a touch of the spawned gate, with floor = 1, however
\* many frames follow the touch.
C2_GateOnce ==
    (currentFloor = 1 /\ initialEquipmentBonus = [attack |-> 0, defense |-> 0]
        /\ sceneStatus # "none") =>
        /\ gateSpawned => countActive(enemies) = 0
        /\ (lastCall.op = "update" /\ countActive(enemies) = 0) => gateSpawned
        /\ gate => gateSpawned
        /\ transitionCount <= 1
        /\ transitionCount = 1 => (gateSpawned /\ ~gate /\ transitionFloor = 1)

\* every enemy of floor 1 defeated, the gate touched, and a later frame over
C2_Witness ==
    /\ currentFloor = 1
    /\ initialEquipmentBonus = [attack |-> 0, defense |-> 0]
    /\ Len(enemies) >= 1
    /\ countActive(enemies) = 0
    /\ transitionCount = 1
    /\ transitionFloor = 1
    /\ lastCall.op = "update"

\* C3: the scene that starts after a player-died event has currentFloor = 1,
\* dropsThisFloor = 0 and no pending item, whichever command started it.
C3_ResetAfterDeath ==
    (lastCall.op = "create" /\ lastCall.afterDeath) =>
        (currentFloor = 1 /\ dropsThisFloor = 0 /\ pendingItems = << >>)

\* C4: dropsThisFloor stays within 0 .. 2 and equals the number of items spawned
\* on the floor, however many enemies are defeated and whatever their drop rolls.
C4_DropsCapped ==
    /\ 0 <= dropsThisFloor
    /\ dropsThisFloor <= 2
    /\ Len(items) = dropsThisFloor

\* three enemies defeated on a floor that dropped two items
C4_Witness ==
    /\ Len(enemies) = 3
    /\ countActive(enemies) = 0
    /\ dropsThisFloor = 2
    /\ Len(items) = 2


(***************************************************************************)
(* Properties of the enemy statistics                                      *)
(***************************************************************************)

\* C12: for a fixed rarity and floors f1 <= f2, the maxHealth and the attack of
\* an enemy of floor f1 are at most those of an enemy of floor f2.
C12_StatsMonotonic ==
    lastCall.op = "EnemyPair" =>
        /\ enemies[1].maxHealth <= enemies[2].maxHealth
        /\ enemies[1].attack <= enemies[2].attack

\* a legendary enemy of floor 1 (150 health, 20 attack) and one of floor 3
C12_Witness ==
    /\ lastCall.op = "EnemyPair"
    /\ lastCall.floors = << 1, 3 >>
    /\ enemies[1].rarity = "legendary"
    /\ enemies[1].maxHealth = 150 /\ enemies[2].maxHealth = 337
    /\ enemies[1].attack = 20 /\ enemies[2].attack = 33

(***************************************************************************)
(* Properties of the entities                                              *)
(***************************************************************************)

RarityRank(r) ==
    CASE r = "common" -> 1 [] r = "uncommon" -> 2 [] r = "rare" -> 3
      [] r = "epic" -> 4 [] r = "legendary" -> 5

MinDropRank(enemyRarity) ==
    CASE enemyRarity = "normal" -> 1 [] enemyRarity = "uncommon" -> 1
      [] enemyRarity = "rare" -> 2 [] enemyRarity = "epic" -> 3
      [] enemyRarity = "legendary" -> 4

\* C5: the rarity of the item an enemy drops is at least the minimum drop rarity
\* of the enemy's tier (normal/uncommon -> common, rare -> uncommon, epic -> rare,
\* legendary -> epic), for every enemy rarity and every rarity roll.
C5_DropRarityAtLeastMinimum ==
    (lastCall.op = "Item" /\ Len(items) = 1) =>
        RarityRank(items[1].data.rarity) >= MinDropRank(enemies[1].rarity)

\* a legendary enemy whose rarity roll came out common drops an epic item
C5_Witness ==
    /\ lastCall.op = "Item"
    /\ lastCall.roll < 50
    /\ Len(items) = 1
    /\ enemies[1].rarity = "legendary"
    /\ items[1].data.rarity = "epic"

\* C6 as stated: every call Player.takeDamage(incoming) takes
\* max(1, incoming - defense) from the player's health (which stops at 0).
C6_EveryCallDamages ==
    lastCall.op = "Player.takeDamage" =>
        player.health =
            Max(0, lastCall.before.health
                     - Max(1, lastCall.amount - lastCall.before.defense))

\* C6: a call Player.takeDamage(incoming) made 500 ms or more after the last
\* damaging call takes exactly max(1, incoming - defense) from the player's
\* health (which stops at 0); a call made sooner leaves the health as it was.
C6_DamageOutsideCooldown ==
    lastCall.op = "Player.takeDamage" =>
        IF lastCall.at - lastCall.before.lastDamageTime >= 500
        THEN player.health =
                Max(0, lastCall.before.health
                         - Max(1, lastCall.amount - lastCall.before.defense))
        ELSE player.health = lastCall.before.health

\* incoming = 5 against defense = 10, outside the cooldown, costs 1 health
C6_Witness ==
    /\ lastCall.op = "Player.takeDamage"
    /\ lastCall.amount = 5
    /\ lastCall.before.defense = 10
    /\ lastCall.at - lastCall.before.lastDamageTime >= 500
    /\ player.health = lastCall.before.health - 1

\* C7: the health of the Player and of every Enemy stays within 0 .. maxHealth
\* after any sequence of takeDamage and heal calls.
C7_HealthInRange ==
    /\ player # NoPlayer => (0 <= player.health /\ player.health <= player.maxHealth)
    /\ \A k \in 1 .. Len(enemies) :
          0 <= enemies[k].health /\ enemies[k].health <= enemies[k].maxHealth

\* an enemy hit for more than the health it has left ends at 0
C7_Witness ==
    /\ lastCall.op = "Enemy.takeDamage"
    /\ lastCall.amount > lastCall.before.health
    /\ lastCall.before.health > 0
    /\ enemies[1].health = 0


(***************************************************************************)
(* Properties of the room sizes                                            *)
(***************************************************************************)

\* C11: the width and the height of every room generateRooms may choose stay
\* below a maximum that does not depend on the floor: the fixed maximum of the
\* grid, 45 x 35.
C11_RoomSizeCapped ==
    lastCall.op = "roomSize" =>
        (lastCall.roomWidth <= 45 /\ lastCall.roomHeight <= 35)

(***************************************************************************)
(* Properties of the generator                                             *)
(***************************************************************************)

Separated(a, b) ==
    \/ a.x >= b.x + b.width + 2
    \/ b.x >= a.x + a.width + 2
    \/ a.y >= b.y + b.height + 2
    \/ b.y >= a.y + a.height + 2

\* C8: any two distinct placed rooms are separated by the 2-tile margin: their
\* bounds expanded by 2 tiles do not overlap, at every point of generate().
C8_RoomsSeparated ==
    \A i, j \in 1 .. Len(rooms) : i # j => Separated(rooms[i], rooms[j])

\* two rooms placed exactly 2 tiles apart
C8_Witness ==
    /\ genPc = "done"
    /\ \E i, j \in 1 .. Len(rooms) :
          i # j /\ rooms[i].x = rooms[j].x + rooms[j].width + 2

Neighbours(c) ==
    { <<c[1] + 1, c[2]>>, <<c[1] - 1, c[2]>>, <<c[1], c[2] + 1>>, <<c[1], c[2] - 1>> }

\* the Floor tiles joined to the tiles of `seen` by 4-connected Floor tiles
RECURSIVE Flood(_, _)
Flood(seen, frontier) ==
    LET next == { c \in UNION { Neighbours(d) : d \in frontier } :
                    c \in Cells /\ c \notin seen /\ TileAt(tiles, c) = 0 }
    IN IF next = {} THEN seen ELSE Flood(seen \cup next, next)

RoomCells(room) ==
    (room.x .. (room.x + room.width - 1)) \X (room.y .. (room.y + room.height - 1))

ReachableFromSpawn ==
    LET s == <<getSpawnPoint.x, getSpawnPoint.y>>
    IN IF s \in Cells /\ TileAt(tiles, s) = 0 THEN Flood({s}, {s}) ELSE {}

C10_DimensionsCapped ==
    genPc # "none" => getDimensions.width <= 45 /\ getDimensions.height <= 35

\* floor 50 of the 25 x 19 base yields the capped size
C10_Witness ==
    /\ genPc = "constructed"
    /\ floor = 50
    /\ 25 + (floor - 1) * 2 > 45
    /\ getDimensions.width = 45
    /\ getDimensions.height = 35

\* pending' keeps every item of pending, in place
Extends(pendingBefore, pendingAfter) ==
    /\ Len(pendingAfter) >= Len(pendingBefore)
    /\ SubSeq(pendingAfter, 1, Len(pendingBefore)) = pendingBefore

C14_FloorTransition ==
    [][ (gameStarted /\ lastCall'.op = "create")
            => /\ currentFloor' = currentFloor + 1
               /\ dropsThisFloor' = 0
               /\ gateSpawned' = FALSE
               /\ gate' = FALSE
               /\ genPc' = "done"
               /\ floor' = currentFloor + 1
               /\ width' = Min(25 + currentFloor * 2, MaxWidth)
               /\ height' = Min(19 + currentFloor * 2, MaxHeight)
               /\ rooms' # << >>
               /\ player'.attack = 25 + initialEquipmentBonus'.attack
               /\ player'.defense = 0 + initialEquipmentBonus'.defense ]_vars

\* floor 2 entered with equipment bonuses after a floor on which an item was
\* picked up (so dropsThisFloor and the player's stats had changed)
C14_Witness ==
    /\ lastCall.op = "create"
    /\ ~lastCall.afterDeath
    /\ lastCall.cleared >= 1
    /\ currentFloor = 2
    /\ floor = 2
    /\ dropsThisFloor = 0
    /\ initialEquipmentBonus = [attack |-> 25, defense |-> 5]
    /\ player.attack = 50
    /\ player.defense = 5

\* C15: once generateRooms has run its first iteration the room list is never
\* empty, and after generate() has completed the tile at getSpawnPoint() (the
\* centre of room 0) and the tile at getLastRoomCenter() (the centre of the
\* last placed room) are both inside the grid and Floor.
C15_RoomsNeverEmpty ==
    /\ (genPc \in {"connect", "done", "threw"} \/ (genPc = "rooms" /\ genI >= 1))
          => Len(rooms) >= 1
    /\ genPc = "done"
          => /\ getSpawnPoint = [x |-> rooms[1].x + (rooms[1].width \div 2),
                                 y |-> rooms[1].y + (rooms[1].height \div 2)]
             /\ << getSpawnPoint.x, getSpawnPoint.y >> \in tiles \cap Cells
             /\ << getLastRoomCenter.x, getLastRoomCenter.y >> \in tiles \cap Cells

\* a completed generation whose only room is as high as the grid (drawn at
\* y = 0, from the reversed range of Between), so that no corridor was carved
C15_Witness ==
    /\ genPc = "done"
    /\ Len(rooms) = 1
    /\ rooms[1].height = height
    /\ rooms[1].y = 0
    /\ << getSpawnPoint.x, getSpawnPoint.y >> \in tiles

\* the step just taken emitted 'gate-spawned'
GateSpawnedEmitted == lastCall.op = "update" /\ lastCall.emitted # << >>

\* C16: 'gate-spawned' is emitted only by a step that finds gateSpawned false
\* and leaves it true with no active enemy, for a gate at the pixel centre of
\* the tile at the centre of the last placed room; gateSpawned then stays true
\* until the next scene start, so the event is emitted at most once between two
\* scene starts.
C16_GateSpawnedOnce ==
    [][ /\ GateSpawnedEmitted'
            => /\ ~gateSpawned
               /\ gateSpawned'
               /\ gate'
               /\ countActive(enemies') = 0
               /\ LET lastRoom == rooms[Len(rooms)]
                      gateEvent == lastCall'.emitted[1]
                  IN /\ gateEvent.gateX = (lastRoom.x + (lastRoom.width \div 2)) * 32 + 16
                     /\ gateEvent.gateY = (lastRoom.y + (lastRoom.height \div 2)) * 32 + 16
                     /\ gateEvent.floor = currentFloor
        /\ (gateSpawned /\ lastCall'.op \notin {"create", "setGameStarted", "reload"})
            => gateSpawned' ]_vars

\* the frame in which the last of several enemies has died emits 'gate-spawned'
C16_Witness ==
    /\ GateSpawnedEmitted
    /\ Len(enemies) >= 2
    /\ countActive(enemies) = 0
    /\ gateSpawned
    /\ gate

\* C17: when an attack kills an enemy, an item is generated exactly if the roll
\* is below the enemy's dropChance and dropsThisFloor < maxDropsPerFloor; then
\* dropsThisFloor grows by exactly 1 and the item group by that one item;
\* otherwise (roll failed, cap reached, or the enemy survived) dropsThisFloor
\* and the item group are unchanged.
C17_DropStep ==
    [][ lastCall'.op = "spawnItemFromEnemy"
            => IF /\ lastCall'.died
                  /\ lastCall'.dropRoll < lastCall'.dropChance
                  /\ dropsThisFloor < 2
               THEN /\ dropsThisFloor' = dropsThisFloor + 1
                    /\ Len(items') = Len(items) + 1
                    /\ SubSeq(items', 1, Len(items)) = items
                    /\ items'[Len(items')].active
               ELSE /\ dropsThisFloor' = dropsThisFloor
                    /\ items' = items ]_vars

\* an enemy has died with a roll just below its dropChance: the first item of
\* the floor was generated and dropsThisFloor went from 0 to 1
C17_Witness ==
    /\ lastCall.op = "spawnItemFromEnemy"
    /\ lastCall.died
    /\ lastCall.dropRoll + 1 = lastCall.dropChance
    /\ dropsThisFloor = 1
    /\ Len(items) = 1
    /\ items[1].active

\* the tile of a sprite
TileOf(sprite) == << (sprite.x - 16) \div 32, (sprite.y - 16) \div 32 >>

InRoom(tile, room) ==
    /\ room.x <= tile[1] /\ tile[1] < room.x + room.width
    /\ room.y <= tile[2] /\ tile[2] < room.y + room.height

EnemiesOfRoom(i) == { k \in 1 .. Len(enemies) : enemies[k].room = i }

\* C18: every spawned enemy stands on a tile inside a room other than the spawn
\* room (room 0) and outside the spawn room, and every room after the spawn
\* room that spawnEnemies has handled received min(5, base + floor((floor - 1)
\* / 2)) enemies for a base in 1..3, which is between 1 and 5.
C18_SpawnCounts ==
    lastCall.op = "spawnEnemies" =>
        /\ \A k \in 1 .. Len(enemies) :
              /\ enemies[k].room \in 1 .. (Len(rooms) - 1)
              /\ InRoom(TileOf(enemies[k]), rooms[enemies[k].room + 1])
              /\ ~InRoom(TileOf(enemies[k]), rooms[1])
        /\ \A i \in 1 .. (SpawnI - 1) :
              /\ Cardinality(EnemiesOfRoom(i)) \in 1 .. 5
              /\ \E base \in 1 .. 3 :
                    Cardinality(EnemiesOfRoom(i))
                        = Min(5, base + ((currentFloor - 1) \div 2))

\* spawnEnemies has finished on a floor where base + bonus exceeds the cap: two
\* rooms hold 5 enemies each, the spawn room none
C18_Witness ==
    /\ lastCall.op = "spawnEnemies"
    /\ currentFloor = 7
    /\ Len(rooms) = 3
    /\ SpawnI = 3
    /\ Cardinality(EnemiesOfRoom(0)) = 0
    /\ Cardinality(EnemiesOfRoom(1)) = 5
    /\ Cardinality(EnemiesOfRoom(2)) = 5

\* the call of performAttack in the step just taken came by the space key or by
\* a pointer click
AttackCalled == lastCall.op \in {"pointerdown", "update, space"}

\* C19 as stated: when an attack takes effect, at least attackCooldownTime = 400
\* of frame delta has elapsed since the previous attack that took effect,
\* whether it came by the space key or by a pointer click.
C19_ElapsedBetweenAttacks ==
    (AttackCalled /\ lastCall.tookEffect) => (lastCall.gap = -1 \/ lastCall.gap >= 400)

\* What the cooldown does guarantee: a performAttack call made while
\* attackCooldown > 0 leaves the enemies, the items, dropsThisFloor and the
\* player as they are and does not restart the cooldown; an attack takes effect
\* only when update() has counted frame deltas that sum to at least 400 since
\* the previous attack that took effect, the delta of the frame whose update()
\* made that attack included.
CooldownGatesAttacks ==
    [][ /\ (AttackCalled' /\ attackCooldown > 0)
            => /\ ~lastCall'.tookEffect
               /\ enemies' = enemies
               /\ items' = items
               /\ dropsThisFloor' = dropsThisFloor
               /\ player' = player
               /\ attackCooldown' <= attackCooldown
        /\ lastCall'.tookEffect
            => (lastCall.sinceAttack = -1 \/ lastCall.sinceAttack >= 400) ]_vars

\* an attack by the space key took effect, as the second hit on the enemy,
\* fewer than 400 ms of frames after the previous attack that took effect
C19_Witness ==
    /\ lastCall.op = "update, space"
    /\ lastCall.tookEffect
    /\ lastCall.gap \in 0 .. 399
    /\ Len(enemies) = 1
    /\ enemies[1].health = enemies[1].maxHealth - 50

\* C20: from the initialisation of the grid to the end of generate(), every
\* step keeps every Floor tile Floor (room carving and corridor carving only
\* add Floor tiles), and the tiles a corridor step adds lie inside the grid.
C20_CarvingMonotonic ==
    [][ /\ (genPc \in {"rooms", "connect"} /\ genPc' \in {"rooms", "connect", "done", "threw"})
            => tiles \subseteq tiles'
        /\ (genPc = "connect" /\ genPc' \in {"connect", "done"})
            => (tiles' \ tiles) \subseteq Cells ]_vars

\* a finished generation in which the corridors added Floor tiles to those of
\* the rooms and crossed tiles that were Floor already, all rooms still carved
C20_Witness ==
    /\ genPc = "done"
    /\ Len(rooms) >= 2
    /\ tiles # CarveAll(AllWalls, rooms, 1)
    /\ CarveAll(AllWalls, rooms, 1) \subseteq tiles
    /\ tiles \subseteq Cells

\* the items that leave the world in the step
PickedUp ==
    { i \in 1 .. Len(items) : items[i].active /\ ~items'[i].active }

\* C21: within a scene, the step that picks an item up appends its data record
\* to pendingItems and removes the item from the world; no other step appends
\* to pendingItems or removes an item, an item that has left the world never
\* returns (so it is appended exactly once), and the data record of an item,
\* in the world or in the pending list, is never modified.
C21_PickupTransfersOnce ==
    [][ lastCall'.op \notin {"create", "setGameStarted", "reload"}
            => /\ Len(items') >= Len(items)
               /\ \A i \in 1 .. Len(items) :
                     /\ items'[i].data = items[i].data
                     /\ ~items[i].active => ~items'[i].active
               /\ Cardinality(PickedUp) <= 1
               /\ PickedUp = {} => pendingItems' = pendingItems
               /\ \A i \in PickedUp :
                     /\ lastCall'.op = "handleItemPickup"
                     /\ pendingItems' = Append(pendingItems, items[i].data) ]_vars

\* both items dropped on a floor have been picked up, the second one by the
\* latest step: the pending list holds their two records in pickup order
C21_Witness ==
    /\ lastCall.op = "handleItemPickup"
    /\ Len(items) = 2
    /\ ~items[1].active /\ ~items[2].active
    /\ items[1].data # items[2].data
    /\ Len(pendingItems) = 2
    /\ {pendingItems[1], pendingItems[2]} = {items[1].data, items[2].data}

\* the enemy rarity order normal < uncommon < rare < epic < legendary
EnemyRarityRank(r) ==
    CASE r = "normal" -> 1 [] r = "uncommon" -> 2 [] r = "rare" -> 3
      [] r = "epic" -> 4 [] r = "legendary" -> 5

\* C22: of two enemies, built on whatever floors, the one whose rarity is not
\* lower has a dropChance, a minimum drop rarity, an hp multiplier and an attack
\* multiplier that are not lower (so two enemies of one rarity agree on all of
\* them, whatever their floors), and on one floor its maxHealth and attack are
\* not lower either.
C22_RarityOrdersLoot ==
    lastCall.op = "RarityPair" =>
        LET a == enemies[1]
            b == enemies[2]
        IN EnemyRarityRank(a.rarity) <= EnemyRarityRank(b.rarity)
            => /\ a.dropChance <= b.dropChance
               /\ a.dropChance = RARITY_MULTIPLIERS[a.rarity].dropChance
               /\ RarityRank(getMinDropRarity(a)) <= RarityRank(getMinDropRarity(b))
               /\ RARITY_MULTIPLIERS[a.rarity].hp <= RARITY_MULTIPLIERS[b.rarity].hp
               /\ RARITY_MULTIPLIERS[a.rarity].attack
                    <= RARITY_MULTIPLIERS[b.rarity].attack
               /\ lastCall.floors[1] = lastCall.floors[2]
                    => (a.maxHealth <= b.maxHealth /\ a.attack <= b.attack)

\* an uncommon enemy of floor 5 next to an epic enemy of floor 1: the epic one
\* is weaker but drops more often (0.7 against 0.35) and drops rarer items
C22_Witness ==
    /\ lastCall.op = "RarityPair"
    /\ lastCall.floors = << 5, 1 >>
    /\ enemies[1].rarity = "uncommon" /\ enemies[2].rarity = "epic"
    /\ enemies[1].maxHealth > enemies[2].maxHealth
    /\ enemies[1].dropChance = 35 /\ enemies[2].dropChance = 70
    /\ getMinDropRarity(enemies[1]) = "common"
    /\ getMinDropRarity(enemies[2]) = "rare"

\* C23: a scene starts on a floor above 1 only if 'floor-transition' was
\* emitted on the floor before it and 'player-died' was not: a
\* proceed-to-next-floor command after a death, or before the gate was touched,
\* starts no next floor.
C23_AdvanceOnlyAfterTransition ==
    (lastCall.op = "create" /\ currentFloor > 1)
        => (lastCall.afterTransition /\ ~lastCall.afterDeath)

\* floor 2 started by the continue step of the modal that a death with
\* collected items opens, the gate of floor 1 never touched
C23_Witness ==
    /\ lastCall.op = "create"
    /\ currentFloor = 2
    /\ lastCall.afterDeath
    /\ ~lastCall.afterTransition
    /\ lastCall.cleared >= 1

\* C24: every placed room lies inside the grid with at least one tile of border
\* on each side, and carveRoom never writes outside the tile array.
C24_RoomsInsideBorder ==
    /\ \A k \in 1 .. Len(rooms) :
          /\ 1 <= rooms[k].x
          /\ rooms[k].x + rooms[k].width <= width - 1
          /\ 1 <= rooms[k].y
          /\ rooms[k].y + rooms[k].height <= height - 1
    /\ genPc # "threw"

\* the same below floor 84, where roomHeight cannot exceed height - 2
RoomsInsideBorderBelow84 == floor < 84 => C24_RoomsInsideBorder

\* floor 87: a room as high as the grid, drawn at y = 1, whose last row is
\* outside the tile array
C24_Witness ==
    /\ floor = 87
    /\ height = 35
    /\ genPc = "threw"
    /\ Len(rooms) = 1
    /\ rooms[1].height = 35
    /\ rooms[1].y = 1

\* C25: no item is collected after the gate has been touched: between
\* 'floor-transition' and the next scene start no pickup changes the scene's
\* pendingItems, so the list of the event is the list the floor is left with.
C25_NoPickupAfterGate ==
    lastCall.op = "handleItemPickup" => ~lastCall.afterTransition

\* an item picked up while the floor modal is open: the scene's list, and the
\* array the modal shows, have grown since 'floor-transition' was emitted
C25_Witness ==
    /\ lastCall.op = "handleItemPickup"
    /\ lastCall.afterTransition
    /\ showFloorTransition
    /\ transitionCount = 1
    /\ Len(pendingItems) >= 1
    /\ appPendingItems = pendingItems

\* C26: in every state of a floor, Len(pendingItems) <= dropsThisFloor <=
\* maxDropsPerFloor = 2; every scene start leaves pendingItems empty and
\* dropsThisFloor = 0; and every pending item was dropped on the current
\* floor: it is the record of an item of this scene that has left the world.
C26_PendingWithinDrops ==
    sceneStatus # "none" =>
        /\ Len(pendingItems) <= dropsThisFloor
        /\ dropsThisFloor <= 2
        /\ lastCall.op = "create" => (pendingItems = << >> /\ dropsThisFloor = 0)
        /\ \A k \in 1 .. Len(pendingItems) :
              /\ pendingItems[k].floorObtained = currentFloor
              /\ \E i \in 1 .. Len(items) :
                    ~items[i].active /\ items[i].data = pendingItems[k]

\* floor 2, after a continue step: both drops of the floor were made and one
\* of them has been picked up
C26_Witness ==
    /\ currentFloor = 2
    /\ dropsThisFloor = 2
    /\ Len(pendingItems) = 1
    /\ pendingItems[1].floorObtained = 2
    /\ Len(items) = 2
    /\ countActive(items) = 1

\* C27: enemies are created by scene create only, and on a floor whose gate has
\* been spawned no enemy is active, player-died is not emitted again and the
\* player's health does not decrease, in any step that stays on that floor
C27_QuietAfterGate ==
    [][ /\ (lastCall'.op # "create" /\ gameStarted') => Len(enemies') = Len(enemies)
        /\ (gateSpawned /\ gateSpawned') =>
              /\ countActive(enemies') = 0
              /\ diedCount' = diedCount
              /\ player'.health >= player.health ]_vars

\* the gate was spawned after a fight in which the player was wounded, and a
\* later frame has passed on the same floor
C27_Witness ==
    /\ gateSpawned
    /\ Len(enemies) > 0
    /\ player.health < player.maxHealth
    /\ player.health > 0
    /\ lastCall.op = "update"
    /\ lastCall.emitted = << >>

\* the enemies that die in this step
DiedInStep == { k \in 1 .. Len(enemies) : enemies[k].active /\ ~enemies'[k].active }

\* C28: an enemy dies at most once: in every step that stays on the floor an
\* enemy is out of the group exactly when its health is 0, a destroyed enemy is
\* never changed again, and the step drops at most one item for each enemy that
\* dies in it, also when one attack hits several enemies
C28_DiesOnce ==
    [][ (lastCall'.op # "create" /\ gameStarted') =>
          /\ Len(enemies') = Len(enemies)
          /\ \A k \in 1 .. Len(enemies) :
                /\ enemies'[k].active <=> enemies'[k].health > 0
                /\ ~enemies[k].active => enemies'[k] = enemies[k]
          /\ Len(items') - Len(items) <= Cardinality(DiedInStep)
          /\ dropsThisFloor' - dropsThisFloor = Len(items') - Len(items) ]_vars

\* one attack has hit two enemies, killed one of them, which dropped an item,
\* and wounded the other
C28_Witness ==
    /\ lastCall.op \in {"update", "pointerdown"}
    /\ Len(enemies) >= 2
    /\ \E k, j \in 1 .. Len(enemies) :
          /\ ~enemies[k].active /\ enemies[k].health = 0
          /\ enemies[j].active /\ enemies[j].health < enemies[j].maxHealth
          /\ enemies[j].health + player.attack = enemies[j].maxHealth
    /\ countActive(enemies) = Len(enemies) - 1
    /\ Len(items) = 1
    /\ dropsThisFloor = 1

\* C29: from scene create until the scene is started again or shut down no step
\* changes the player's attack, defense or maxHealth, and a pickup leaves the
\* player's health unchanged as well
C29_StatsConstantOnFloor ==
    [][ /\ (gameStarted /\ gameStarted' /\ lastCall'.op # "create") =>
              /\ player'.attack = player.attack
              /\ player'.defense = player.defense
              /\ player'.maxHealth = player.maxHealth
        /\ lastCall'.op = "handleItemPickup" => player' = player ]_vars

\* a wounded player has just picked up an item that carries attack or defense
C29_Witness ==
    /\ lastCall.op = "handleItemPickup"
    /\ Len(pendingItems) > 0
    /\ pendingItems[Len(pendingItems)].attack + pendingItems[Len(pendingItems)].defense > 0
    /\ player.health < player.maxHealth
    /\ player.attack = 25 + initialEquipmentBonus.attack
    /\ player.defense = initialEquipmentBonus.defense

\* the last step was a takeDamage call that had a health reduction before it
DamageCalledAgain ==
    /\ lastCall.op = "Player.takeDamage"
    /\ lastCall.previousReduction >= 0

\* C30: a takeDamage call made less than damageCooldown after the previous call
\* that reduced health leaves the Player as it was, so two health reductions
\* of one Player are at least damageCooldown apart, whichever enemies call
C30_DamageRateLimited ==
    DamageCalledAgain =>
        /\ lastCall.at - lastCall.previousReduction < damageCooldown
              => (player = lastCall.before /\ ~lastCall.reduced)
        /\ lastCall.reduced
              => lastCall.at - lastCall.previousReduction >= damageCooldown

\* a second enemy has called takeDamage 300 ms after a hit that reduced health,
\* and the call changed nothing
C30_Witness ==
    /\ DamageCalledAgain
    /\ Len(enemies) >= 2
    /\ lastCall.at - lastCall.previousReduction = 300
    /\ player.lastDamageTime = lastCall.previousReduction
    /\ player.health < player.maxHealth
    /\ player.health > 0

====
